---- MODULE Spec2Model ----
(***************************************************************************)
(* CANopen-monitor: the bus multiplexer (MagicCANBus) with its reader      *)
(* threads and single consumer, and the COB-ID classifier (MessageType).   *)
(*                                                                         *)
(* The multiplexer is driven the way its context-manager protocol drives   *)
(* it: __init__, then __enter__ once, __next__ any number of times, then   *)
(* __exit__ (which callers may repeat).  Each reader thread advances one   *)
(* statement of MagicCANBus.handler per step, so every interleaving of the *)
(* threads with each other and with the consumer is a behaviour.           *)
(*                                                                         *)
(* The Interface adapter (canopen_monitor/can/interface.py) is modelled by *)
(* the outcomes of its calls, as section 6 of the specification gives      *)
(* them: start() and restart() return or raise OSError, recv() returns a   *)
(* frame or None or raises OSError, is_up reads True or False.             *)
(***************************************************************************)
EXTENDS Integers, Sequences, FiniteSets

\* ------------------------------------------------------------------ bounds

\* Frames the adapters deliver during one run, all interfaces together.
MaxFrames == 2
\* Adapter faults during one run, all interfaces together: recv() raising
\* OSError, restart() raising OSError, is_up read as False.
MaxFaults == 2
\* Calls of __exit__ during one run.
MaxExits == 2
\* Seconds a CANMsg is followed after its creation.
MaxAge == 13
\* Longest list of interface names handed to MagicCANBus.__init__.
MaxIfNames == 4
\* Longest payload of a frame handed to CANOpenParser.parse, in bytes.
MaxPayload == 8
\* Most segments one SDO transfer is followed for.
MaxSegments == 2

\* ------------------------------------------------------------------ inputs

\* if_names handed to MagicCANBus.__init__, in list order.
if_names == <<"can0", "can1">>

Ifaces == {if_names[k] : k \in 1..Len(if_names)}

\* ------------------------------------------------------------------ state

VARIABLES
    keep_alive,     \* self.keep_alive (threading.Event)
    message_queue,  \* self.message_queue (queue.SimpleQueue), head first
    threads,        \* self.threads: NoThreads or the list of started threads
    wpc,            \* per interface: the statement its thread is at
    frame,          \* per interface: the handler's local `frame` while it is
                    \* live (from recv() to put), NoFrame otherwise
    recvd,          \* per interface: frames recv() has returned
    recv_errors,    \* per interface: OSErrors recv() has raised
    downs,          \* per interface: times is_up was read False
    restart_errors, \* per interface: OSErrors restart() has raised
    start_calls,    \* per interface: calls of iface.start()
    restart_calls,  \* per interface: calls of iface.restart()
    stop_calls,     \* per interface: calls of iface.stop()
    cpc,            \* the consumer: "idle", inside __next__ or inside __exit__
    join_idx,       \* __exit__: index in self.threads of the thread being joined
    exits,          \* calls of __exit__ that have returned
    polled,         \* frames __next__ has returned, oldest first
    cob_id,         \* classifier input
    mtype,          \* cob_id_to_type result (MessageType member name)
    node_id,        \* cob_id_to_node_id result
    msg,            \* the CANMsg object (NoMsg before it is created)
    now,            \* datetime.datetime.now(), in seconds
    spc,            \* status(): "idle", or "is_stale" after is_dead() said no
    t_dead,         \* status(): the clock as is_dead() read it (-1: no call)
    last_status,    \* the latest status() result, and the instant of the call
                    \* when both its clock reads fell in one (at = -1 if not)
    last_flag,      \* the latest result of a direct is_stale() / is_dead()
    names_arg,      \* MagicCANBus(if_names): the argument
    interfaces,     \* MagicCANBus(if_names): self.interfaces, by name
    ctor_res,       \* MagicCANBus(if_names): "none", "ok" or the error raised
    eds_configs,    \* CANOpenParser.eds_configs
    sdo,            \* CANOpenParser.sdo: the open transfer sessions of the SDOParser
    sdo_from,       \* history: the interface whose frame opened each session
    sdo_seen,       \* history: per node, how far the latest SDO frames follow
                    \* initiate download, segment 0, final segment 1, segment
    p_iface,        \* the interface the frame of the latest parse() came from
    p_cob,          \* parse(cob_id, data): cob_id
    p_data,         \* parse(cob_id, data): data
    branch,         \* the branch parse() took: the decoder it chose
    response,       \* what parse() returned, or the exception it raised
    p_again,        \* history: the latest parse() got the same frame as the
                    \* call before it
    p_before        \* history: the outcome of the call before the latest

busvars == <<keep_alive, message_queue, threads, wpc, frame, recvd,
             recv_errors, downs, restart_errors, start_calls, restart_calls,
             stop_calls, cpc, join_idx, exits, polled>>

clsvars == <<cob_id, mtype, node_id>>

\* Everything that is not the multiplexer's.
msgvars == <<msg, now, spc, t_dead, last_status, last_flag>>

ctorvars == <<names_arg, interfaces, ctor_res>>

parsevars == <<eds_configs, sdo, sdo_from, sdo_seen, p_iface, p_cob, p_data,
               branch, response, p_again, p_before>>

purevars == <<clsvars, msgvars, ctorvars, parsevars>>

vars == <<keep_alive, message_queue, threads, wpc, frame, recvd,
          recv_errors, downs, restart_errors, start_calls, restart_calls,
          stop_calls, cpc, join_idx, exits, polled, cob_id, mtype, node_id,
          msg, now, spc, t_dead, last_status, last_flag,
          names_arg, interfaces, ctor_res,
          eds_configs, sdo, sdo_from, sdo_seen, p_iface, p_cob, p_data, branch,
          response, p_again, p_before>>

\* `frame is None`
NoFrame == <<>>

\* The n-th frame read from interface i.
Frame(i, n) == <<i, n>>

\* A thread that has returned from handler, or died of an uncaught exception.
Terminated(i) == wpc[i] \in {"done", "crashed"}

\* Thread.is_alive()
is_alive(i) == wpc[i] \notin {"unstarted", "done", "crashed"}

\* ------------------------------------------------------------------ adapter

RECURSIVE SumTo(_, _)
SumTo(f, k) == IF k = 0 THEN 0 ELSE f[if_names[k]] + SumTo(f, k - 1)

\* Sum of a per-interface counter over all interfaces.
Total(f) == SumTo(f, Len(if_names))

\* Frames delivered and faults injected so far.
Frames == Total(recvd)
Faults == Total(recv_errors) + Total(restart_errors) + Total(downs)

\* iface.start(): returns, or fails with an I/O error.
StartOutcomes == {"ok", "OSError"}

\* iface.restart(): returns, or raises OSError (within the run's fault budget).
RestartOutcomes(i) ==
    {"ok"} \cup (IF Faults < MaxFaults THEN {"OSError"} ELSE {})

\* iface.recv(): a frame, None on timeout, or OSError.
RecvOutcomes(i) ==
    {"none"}
    \cup (IF Frames < MaxFrames THEN {"frame"} ELSE {})
    \cup (IF Faults < MaxFaults THEN {"OSError"} ELSE {})

\* iface.is_up
IsUpOutcomes(i) == {TRUE} \cup (IF Faults < MaxFaults THEN {FALSE} ELSE {})

\* ------------------------------------------------------------------ queue

\* put that inserts at the head: a LIFO
QueuePut_Front(q, f) == <<f>> \o q

\* SimpleQueue.put
QueuePut(q, f) == Append(q, f)

\* SimpleQueue.empty
QueueEmpty(q) == Len(q) = 0

\* SimpleQueue.get: the item returned and the queue left
QueueGetItem(q) == Head(q)
QueueGetRest(q) == Tail(q)

\* ------------------------------------------------------------------ __init__

\* self.threads = None: the list of threads does not exist yet
NoThreads == <<"None">>

BusInit ==
    /\ keep_alive = TRUE
    /\ message_queue = <<>>
    /\ threads = NoThreads
    /\ wpc = [i \in Ifaces |-> "unstarted"]
    /\ frame = [i \in Ifaces |-> NoFrame]
    /\ recvd = [i \in Ifaces |-> 0]
    /\ recv_errors = [i \in Ifaces |-> 0]
    /\ downs = [i \in Ifaces |-> 0]
    /\ restart_errors = [i \in Ifaces |-> 0]
    /\ start_calls = [i \in Ifaces |-> 0]
    /\ restart_calls = [i \in Ifaces |-> 0]
    /\ stop_calls = [i \in Ifaces |-> 0]
    /\ cpc = "idle"
    /\ join_idx = 1
    /\ exits = 0
    /\ polled = <<>>

\* No classification in progress.
ClsIdle ==
    /\ cob_id = 0
    /\ mtype = "none"
    /\ node_id = "none"

\* No CANMsg yet.
NoMsg ==
    [arb_id |-> -1, data |-> <<>>, message_type |-> "none", timestamp |-> -1,
     stale_timeout |-> -1, dead_timeout |-> -1]

\* No status() call has returned yet.
NoStatus == [result |-> "none", at |-> -1]

\* No message is being tracked.
MsgIdle ==
    /\ msg = NoMsg
    /\ now = 0
    /\ spc = "idle"
    /\ t_dead = -1
    /\ last_status = NoStatus
    /\ last_flag = "none"

\* No constructor call is being looked at.
CtorIdle ==
    /\ names_arg = <<>>
    /\ interfaces = <<>>
    /\ ctor_res = "none"

\* data of a frame: its length and, for a frame of full length, what the SDO
\* command byte and the bytes after it say.
NoData ==
    [len |-> 0, kind |-> "short", dir |-> "none", toggle |-> 0,
     final |-> FALSE, bytes |-> <<>>]

\* parse() has not been called.
NoResponse == [by |-> "none", what |-> "not called", value |-> <<>>]

\* SDOParser(): no transfer session is open
NoSessions == [n \in {} |-> NoData]

\* No call of CANOpenParser.parse is being looked at.
ParseIdle ==
    /\ eds_configs = <<>>
    /\ sdo = NoSessions
    /\ sdo_from = NoSessions
    /\ sdo_seen = NoSessions
    /\ p_iface = "none"
    /\ p_cob = 0
    /\ p_data = NoData
    /\ branch = "none"
    /\ response = NoResponse
    /\ p_again = FALSE
    /\ p_before = NoResponse

\* While the multiplexer runs nothing else is in progress.
Init ==
    /\ BusInit
    /\ ClsIdle
    /\ MsgIdle
    /\ CtorIdle
    /\ ParseIdle

\* ------------------------------------------------------------------ handler

\* line 32: iface.start(), outside the try
HandlerStart(i) ==
    /\ wpc[i] = "start"
    /\ start_calls' = [start_calls EXCEPT ![i] = @ + 1]
    /\ \E r \in StartOutcomes :
          wpc' = [wpc EXCEPT ![i] = IF r = "ok" THEN "outer" ELSE "crashed"]
    /\ UNCHANGED <<keep_alive, message_queue, threads, frame, recvd,
                   recv_errors, downs, restart_errors, restart_calls,
                   stop_calls, cpc, join_idx, exits, polled,
                   purevars>>

\* line 37: while(self.keep_alive.is_set())
HandlerOuter(i) ==
    /\ wpc[i] = "outer"
    /\ wpc' = [wpc EXCEPT ![i] = IF keep_alive THEN "inner" ELSE "stop"]
    /\ UNCHANGED <<keep_alive, message_queue, threads, frame, recvd,
                   recv_errors, downs, restart_errors, start_calls,
                   restart_calls, stop_calls, cpc, join_idx, exits, polled, purevars>>

\* while(iface.is_up): the inner loop never looks at keep_alive
HandlerInner_IgnoreKeepAlive(i) ==
    /\ wpc[i] = "inner"
    /\ \E up \in IsUpOutcomes(i) :
          /\ wpc' = [wpc EXCEPT ![i] = IF up THEN "recv" ELSE "restart"]
          /\ downs' = [downs EXCEPT ![i] = IF up THEN @ ELSE @ + 1]
    /\ UNCHANGED <<keep_alive, message_queue, threads, frame, recvd,
                   recv_errors, restart_errors, start_calls, restart_calls,
                   stop_calls, cpc, join_idx, exits, polled,
                   purevars>>

\* line 44: while(self.keep_alive.is_set() and iface.is_up)
HandlerInner(i) ==
    /\ wpc[i] = "inner"
    /\ IF keep_alive
         THEN \E up \in IsUpOutcomes(i) :
                 /\ wpc' = [wpc EXCEPT ![i] = IF up THEN "recv" ELSE "restart"]
                 /\ downs' = [downs EXCEPT ![i] = IF up THEN @ ELSE @ + 1]
         ELSE /\ wpc' = [wpc EXCEPT ![i] = "restart"]
              /\ UNCHANGED downs
    /\ UNCHANGED <<keep_alive, message_queue, threads, frame, recvd,
                   recv_errors, restart_errors, start_calls, restart_calls,
                   stop_calls, cpc, join_idx, exits, polled,
                   purevars>>

\* line 45: frame = iface.recv(), and line 46: if(frame is not None)
HandlerRecv(i) ==
    /\ wpc[i] = "recv"
    /\ \E r \in RecvOutcomes(i) :
          \/ /\ r = "frame"
             /\ frame' = [frame EXCEPT ![i] = Frame(i, recvd[i] + 1)]
             /\ recvd' = [recvd EXCEPT ![i] = @ + 1]
             /\ wpc' = [wpc EXCEPT ![i] = "put"]
             /\ UNCHANGED recv_errors
          \/ /\ r = "none"
             /\ frame' = [frame EXCEPT ![i] = NoFrame]
             /\ wpc' = [wpc EXCEPT ![i] = "inner"]
             /\ UNCHANGED <<recvd, recv_errors>>
          \/ /\ r = "OSError"
             /\ recv_errors' = [recv_errors EXCEPT ![i] = @ + 1]
             /\ wpc' = [wpc EXCEPT ![i] = "except"]
             /\ UNCHANGED <<frame, recvd>>
    /\ UNCHANGED <<keep_alive, message_queue, threads, downs, restart_errors,
                   start_calls, restart_calls, stop_calls, cpc, join_idx,
                   exits, polled, purevars>>

\* put_nowait on a queue of capacity 1: the frame is lost when one is pending
HandlerPut_DropWhenPending(i) ==
    /\ wpc[i] = "put"
    /\ message_queue' = IF Len(message_queue) >= 1 THEN message_queue
                         ELSE QueuePut(message_queue, frame[i])
    /\ frame' = [frame EXCEPT ![i] = NoFrame]
    /\ wpc' = [wpc EXCEPT ![i] = "inner"]
    /\ UNCHANGED <<keep_alive, threads, recvd, recv_errors, downs,
                   restart_errors, start_calls, restart_calls, stop_calls,
                   cpc, join_idx, exits, polled, purevars>>

\* put that waits while the thread of another interface is failing
HandlerPut_WaitForOthers(i) ==
    /\ wpc[i] = "put"
    /\ \A a \in Ifaces \ {i} : wpc[a] \notin {"restart", "except", "crashed"}
    /\ message_queue' = QueuePut(message_queue, frame[i])
    /\ frame' = [frame EXCEPT ![i] = NoFrame]
    /\ wpc' = [wpc EXCEPT ![i] = "inner"]
    /\ UNCHANGED <<keep_alive, threads, recvd, recv_errors, downs,
                   restart_errors, start_calls, restart_calls, stop_calls,
                   cpc, join_idx, exits, polled, purevars>>

\* line 47: self.message_queue.put(frame, block=True)
HandlerPut(i) ==
    /\ wpc[i] = "put"
    /\ message_queue' = QueuePut(message_queue, frame[i])
    /\ frame' = [frame EXCEPT ![i] = NoFrame]
    /\ wpc' = [wpc EXCEPT ![i] = "inner"]
    /\ UNCHANGED <<keep_alive, threads, recvd, recv_errors, downs,
                   restart_errors, start_calls, restart_calls, stop_calls,
                   cpc, join_idx, exits, polled, purevars>>

\* line 48: iface.restart() after the inner loop, inside the try
HandlerRestart(i) ==
    /\ wpc[i] = "restart"
    /\ restart_calls' = [restart_calls EXCEPT ![i] = @ + 1]
    /\ \E r \in RestartOutcomes(i) :
          /\ wpc' = [wpc EXCEPT ![i] = IF r = "ok" THEN "outer" ELSE "except"]
          /\ restart_errors' =
                [restart_errors EXCEPT ![i] = IF r = "ok" THEN @ ELSE @ + 1]
    /\ UNCHANGED <<keep_alive, message_queue, threads, frame, recvd,
                   recv_errors, downs, start_calls, stop_calls, cpc, join_idx,
                   exits, polled, purevars>>

\* except OSError: pass -- the error is swallowed without a restart
HandlerExcept_NoRestart(i) ==
    /\ wpc[i] = "except"
    /\ wpc' = [wpc EXCEPT ![i] = "outer"]
    /\ UNCHANGED <<keep_alive, message_queue, threads, frame, recvd,
                   recv_errors, downs, restart_errors, start_calls,
                   restart_calls, stop_calls, cpc, join_idx, exits, polled,
                   purevars>>

\* lines 49-50: except OSError: iface.restart()
HandlerExcept(i) ==
    /\ wpc[i] = "except"
    /\ restart_calls' = [restart_calls EXCEPT ![i] = @ + 1]
    /\ \E r \in RestartOutcomes(i) :
          /\ wpc' = [wpc EXCEPT ![i] = IF r = "ok" THEN "outer" ELSE "crashed"]
          /\ restart_errors' =
                [restart_errors EXCEPT ![i] = IF r = "ok" THEN @ ELSE @ + 1]
    /\ UNCHANGED <<keep_alive, message_queue, threads, frame, recvd,
                   recv_errors, downs, start_calls, stop_calls, cpc, join_idx,
                   exits, polled, purevars>>

\* line 51: iface.stop(), then the thread ends
HandlerStop(i) ==
    /\ wpc[i] = "stop"
    /\ stop_calls' = [stop_calls EXCEPT ![i] = @ + 1]
    /\ wpc' = [wpc EXCEPT ![i] = "done"]
    /\ UNCHANGED <<keep_alive, message_queue, threads, frame, recvd,
                   recv_errors, downs, restart_errors, start_calls,
                   restart_calls, cpc, join_idx, exits, polled,
                   purevars>>

\* One step of the reader thread of interface i.
handler(i) ==
    \/ HandlerStart(i)
    \/ HandlerOuter(i)
    \/ HandlerInner(i)
    \/ HandlerRecv(i)
    \/ HandlerPut(i)
    \/ HandlerRestart(i)
    \/ HandlerExcept(i)
    \/ HandlerStop(i)

\* ------------------------------------------------------------------ consumer

\* __enter__: start_handler for every interface, then self.threads = [...]
Enter ==
    /\ cpc = "idle"
    /\ threads = NoThreads
    /\ threads' = if_names
    /\ wpc' = [i \in Ifaces |-> "start"]
    /\ UNCHANGED <<keep_alive, message_queue, frame, recvd, recv_errors,
                   downs, restart_errors, start_calls, restart_calls,
                   stop_calls, cpc, join_idx, exits, polled,
                   purevars>>

\* __next__ without the emptiness test: straight to the blocking get
NextEmpty_NoTest ==
    /\ cpc = "idle"
    /\ cpc' = "next_get"
    /\ UNCHANGED <<keep_alive, message_queue, threads, wpc, frame, recvd,
                   recv_errors, downs, restart_errors, start_calls,
                   restart_calls, stop_calls, join_idx, exits, polled,
                   purevars>>

\* __next__, line 71: if(self.message_queue.empty()): raise StopIteration
NextEmpty ==
    /\ cpc = "idle"
    /\ IF QueueEmpty(message_queue)
         THEN UNCHANGED cpc
         ELSE cpc' = "next_get"
    /\ UNCHANGED <<keep_alive, message_queue, threads, wpc, frame, recvd,
                   recv_errors, downs, restart_errors, start_calls,
                   restart_calls, stop_calls, join_idx, exits, polled,
                   purevars>>

\* __next__, line 73: return self.message_queue.get(block=True)
\* (a blocking get: it waits while the queue is empty)
NextGet ==
    /\ cpc = "next_get"
    /\ ~QueueEmpty(message_queue)
    /\ polled' = Append(polled, QueueGetItem(message_queue))
    /\ message_queue' = QueueGetRest(message_queue)
    /\ cpc' = "idle"
    /\ UNCHANGED <<keep_alive, threads, wpc, frame, recvd, recv_errors,
                   downs, restart_errors, start_calls, restart_calls,
                   stop_calls, join_idx, exits, purevars>>

\* __exit__ that flips the event instead of clearing it
ExitClear_Toggle ==
    /\ cpc = "idle"
    /\ threads # NoThreads
    /\ exits < MaxExits
    /\ keep_alive' = ~keep_alive
    /\ cpc' = "exit_join"
    /\ join_idx' = 1
    /\ UNCHANGED <<message_queue, threads, wpc, frame, recvd, recv_errors,
                   downs, restart_errors, start_calls, restart_calls,
                   stop_calls, exits, polled, purevars>>

\* __exit__, line 62: self.keep_alive.clear()
ExitClear ==
    /\ cpc = "idle"
    /\ threads # NoThreads
    /\ exits < MaxExits
    /\ keep_alive' = FALSE
    /\ cpc' = "exit_join"
    /\ join_idx' = 1
    /\ UNCHANGED <<message_queue, threads, wpc, frame, recvd, recv_errors,
                   downs, restart_errors, start_calls, restart_calls,
                   stop_calls, exits, polled, purevars>>

\* the loop over self.threads without the join: no waiting
ExitJoin_NoWait ==
    /\ cpc = "exit_join"
    /\ join_idx <= Len(threads)
    /\ join_idx' = join_idx + 1
    /\ UNCHANGED <<keep_alive, message_queue, threads, wpc, frame, recvd,
                   recv_errors, downs, restart_errors, start_calls,
                   restart_calls, stop_calls, cpc, exits, polled,
                   purevars>>

\* __exit__, lines 63-65: for tr in self.threads: tr.join()
ExitJoin ==
    /\ cpc = "exit_join"
    /\ join_idx <= Len(threads)
    /\ Terminated(threads[join_idx])
    /\ join_idx' = join_idx + 1
    /\ UNCHANGED <<keep_alive, message_queue, threads, wpc, frame, recvd,
                   recv_errors, downs, restart_errors, start_calls,
                   restart_calls, stop_calls, cpc, exits, polled,
                   purevars>>

\* __exit__ returns once the loop over self.threads is exhausted
ExitReturn ==
    /\ cpc = "exit_join"
    /\ join_idx > Len(threads)
    /\ cpc' = "idle"
    /\ exits' = exits + 1
    /\ UNCHANGED <<keep_alive, message_queue, threads, wpc, frame, recvd,
                   recv_errors, downs, restart_errors, start_calls,
                   restart_calls, stop_calls, join_idx, polled,
                   purevars>>

\* ------------------------------------------------------------------ system

Next ==
    \/ Enter
    \/ NextEmpty
    \/ NextGet
    \/ ExitClear
    \/ ExitJoin
    \/ ExitReturn
    \/ \E i \in Ifaces : handler(i)

Spec == Init /\ [][Next]_vars

\* Threads are scheduled fairly and every adapter call returns; a caller that
\* has entered __exit__ keeps running it.
FairSpec ==
    /\ Spec
    /\ \A i \in Ifaces : WF_vars(handler(i))
    /\ WF_vars(ExitJoin)
    /\ WF_vars(ExitReturn)

\* ------------------------------------------------------------------ classifier

\* MessageType members by value (canmsg.py lines 7-22)
MessageType ==
    <<"NMT", "SYNC", "TIME", "EMER", "PDO1_TX", "PDO1_RX", "PDO2_TX",
      "PDO2_RX", "PDO3_TX", "PDO3_RX", "PDO4_TX", "PDO4_RX", "SDO_TX",
      "SDO_RX", "HEARTBEAT", "UKNOWN">>

\* node_ranges with the SYNC range running up to 0x17F
node_ranges_SyncTo17F ==
    << <<0, 0>>, <<1, 383>>, <<256, 256>>, <<128, 255>>, <<384, 511>>,
       <<512, 639>>, <<640, 767>>, <<768, 895>>, <<896, 1023>>,
       <<1024, 1151>>, <<1152, 1279>>, <<1280, 1407>>, <<1408, 1535>>,
       <<1536, 1664>>, <<1792, 2047>> >>

\* node_ranges of cob_id_to_type, in declared order (inclusive bounds):
\* 0x0-0x0, 0x1-0x7F, 0x100-0x100, 0x80-0xFF, 0x180-0x1FF, 0x200-0x27F,
\* 0x280-0x2FF, 0x300-0x37F, 0x380-0x3FF, 0x400-0x47F, 0x480-0x4FF,
\* 0x500-0x57F, 0x580-0x5FF, 0x600-0x680, 0x700-0x7FF
node_ranges ==
    << <<0, 0>>, <<1, 127>>, <<256, 256>>, <<128, 255>>, <<384, 511>>,
       <<512, 639>>, <<640, 767>>, <<768, 895>>, <<896, 1023>>,
       <<1024, 1151>>, <<1152, 1279>>, <<1280, 1407>>, <<1408, 1535>>,
       <<1536, 1664>>, <<1792, 2047>> >>

\* The for loop of cob_id_to_type from index k on: the first range that holds
\* c gives MessageType(k - 1); no range gives MessageType(15).
RECURSIVE ScanRanges(_, _)
ScanRanges(c, k) ==
    IF k > Len(node_ranges) THEN 15
    ELSE IF c >= node_ranges[k][1] /\ c <= node_ranges[k][2] THEN k - 1
    ELSE ScanRanges(c, k + 1)

\* MessageType.cob_id_to_type, as the member's name
cob_id_to_type(c) == MessageType[ScanRanges(c, 1) + 1]

\* The 11-bit identifiers.
CobIds == 0..2047

\* Names defined on class MessageType: its members and its two functions.
\* (node_ranges is a local of cob_id_to_type, not an attribute.)
MessageTypeAttrs ==
    {MessageType[k] : k \in 1..Len(MessageType)}
        \cup {"cob_id_to_type", "cob_id_to_node_id"}

\* The for loop of cob_id_to_node_id over ranges r from index k on: the first
\* range that holds c gives c - range[0]; no range gives None.
RECURSIVE ScanNodeId(_, _, _)
ScanNodeId(r, c, k) ==
    IF k > Len(r) THEN "None"
    ELSE IF c >= r[k][1] /\ c <= r[k][2] THEN c - r[k][1]
    ELSE ScanNodeId(r, c, k + 1)

\* MessageType.cob_id_to_node_id: line 74 reads MessageType.NODE_RANGES,
\* which raises AttributeError when the class has no such attribute.
cob_id_to_node_id(c) ==
    IF "NODE_RANGES" \in MessageTypeAttrs
      THEN ScanNodeId(node_ranges, c, 1)
      ELSE "AttributeError"

ClsInit ==
    /\ BusInit
    /\ cob_id \in CobIds
    /\ mtype = "none"
    /\ node_id = "none"
    /\ MsgIdle
    /\ CtorIdle
    /\ ParseIdle

\* message_type = MessageType.cob_id_to_type(arb_id)
Classify ==
    /\ mtype = "none"
    /\ mtype' = cob_id_to_type(cob_id)
    /\ UNCHANGED <<busvars, cob_id, node_id, msgvars, ctorvars, parsevars>>

\* MessageType.cob_id_to_node_id(cob_id)
NodeIdOf ==
    /\ node_id = "none"
    /\ node_id' = cob_id_to_node_id(cob_id)
    /\ UNCHANGED <<busvars, cob_id, mtype, msgvars, ctorvars, parsevars>>

ClsNext ==
    \/ Classify
    \/ NodeIdOf

ClassSpec == ClsInit /\ [][ClsNext]_vars

\* ------------------------------------------------------------------ CANMsg

\* Defaults of CANMsg.__init__
DefaultStale == 6
DefaultDead == 12

\* (stale_timeout, dead_timeout) arguments tried: the defaults, another pair
\* with dead > stale, dead = stale, and dead < stale.
TimeoutArgs == {<<DefaultStale, DefaultDead>>, <<2, 4>>, <<3, 3>>, <<4, 2>>}

\* src.arb_id and src.data of the frames a message is made from.
SrcFrames == {<<128, <<1, 2>> >>, <<385, <<>> >>}

\* The clock at the start of a run.
StartTimes == {0, 5}

\* is_stale with > for >=
is_stale_Strict(m, t) == (t - m.timestamp) > m.stale_timeout

\* CANMsg.is_stale, with the clock reading t
is_stale(m, t) == (t - m.timestamp) >= m.stale_timeout

\* is_dead that tests for the exact second
is_dead_Exactly(m, t) == (t - m.timestamp) = m.dead_timeout

\* CANMsg.is_dead, with the clock reading t
is_dead(m, t) == (t - m.timestamp) >= m.dead_timeout

MsgInit ==
    /\ BusInit
    /\ ClsIdle
    /\ msg = NoMsg
    /\ now \in StartTimes
    /\ spc = "idle"
    /\ t_dead = -1
    /\ last_status = NoStatus
    /\ last_flag = "none"
    /\ CtorIdle
    /\ ParseIdle

\* CANMsg.__init__(src, interface, stale_timeout, dead_timeout): no argument
\* is checked
Construct ==
    /\ msg = NoMsg
    /\ \E f \in SrcFrames, to \in TimeoutArgs :
          msg' = [arb_id |-> f[1], data |-> f[2],
                  message_type |-> cob_id_to_type(f[1]),
                  timestamp |-> now,
                  stale_timeout |-> to[1], dead_timeout |-> to[2]]
    /\ UNCHANGED <<busvars, clsvars, ctorvars, parsevars, now, spc, t_dead, last_status,
                   last_flag>>

\* Time passes (also between the two clock reads of one status() call).
Tick ==
    /\ msg # NoMsg
    /\ now - msg.timestamp < MaxAge
    /\ now' = now + 1
    /\ UNCHANGED <<busvars, clsvars, ctorvars, parsevars, msg, spc, t_dead, last_status,
                   last_flag>>

\* status(), lines 142-143: if(self.is_dead()): return 'DEAD'
StatusIsDead ==
    /\ msg # NoMsg
    /\ spc = "idle"
    /\ IF is_dead(msg, now)
         THEN /\ last_status' = [result |-> "DEAD", at |-> now]
              /\ UNCHANGED <<spc, t_dead>>
         ELSE /\ spc' = "is_stale"
              /\ t_dead' = now
              /\ UNCHANGED last_status
    /\ UNCHANGED <<busvars, clsvars, ctorvars, parsevars, msg, now, last_flag>>

\* status() that stamps the message with the time of the call
StatusIsStale_Touch ==
    /\ spc = "is_stale"
    /\ last_status' = [result |-> IF is_stale(msg, now) THEN "STALE"
                                  ELSE "ALIVE",
                       at |-> IF t_dead = now THEN now ELSE -1]
    /\ msg' = [msg EXCEPT !.timestamp = now]
    /\ spc' = "idle"
    /\ t_dead' = -1
    /\ UNCHANGED <<busvars, clsvars, ctorvars, parsevars, now, last_flag>>

\* status(), lines 144-147: elif(self.is_stale()): 'STALE', else 'ALIVE'
StatusIsStale ==
    /\ spc = "is_stale"
    /\ last_status' = [result |-> IF is_stale(msg, now) THEN "STALE"
                                  ELSE "ALIVE",
                       at |-> IF t_dead = now THEN now ELSE -1]
    /\ spc' = "idle"
    /\ t_dead' = -1
    /\ UNCHANGED <<busvars, clsvars, ctorvars, parsevars, msg, now, last_flag>>

\* a direct call of is_stale()
IsStaleCall ==
    /\ msg # NoMsg
    /\ spc = "idle"
    /\ last_flag' = IF is_stale(msg, now) THEN "stale" ELSE "not stale"
    /\ UNCHANGED <<busvars, clsvars, ctorvars, parsevars, msg, now, spc, t_dead, last_status>>

\* a direct call of is_dead()
IsDeadCall ==
    /\ msg # NoMsg
    /\ spc = "idle"
    /\ last_flag' = IF is_dead(msg, now) THEN "dead" ELSE "not dead"
    /\ UNCHANGED <<busvars, clsvars, ctorvars, parsevars, msg, now, spc, t_dead, last_status>>

MsgNext ==
    \/ Construct
    \/ Tick
    \/ StatusIsDead
    \/ StatusIsStale
    \/ IsStaleCall
    \/ IsDeadCall

MsgSpec == MsgInit /\ [][MsgNext]_vars

\* ------------------------------------------------------------------ MagicCANBus(if_names)

\* Interface names a caller may pass.
NameChoices == {"can0", "can1", "vcan0"}

\* The lists of at most n names.
NameLists(n) == UNION {[1..k -> NameChoices] : k \in 0..n}

\* list(map(lambda x: Interface(x), if_names)): one handle per element, in
\* order, each known by its name
MapInterface(names) == [k \in 1..Len(names) |-> names[k]]

CtorInit ==
    /\ BusInit
    /\ ClsIdle
    /\ MsgIdle
    /\ names_arg \in NameLists(MaxIfNames)
    /\ interfaces = <<>>
    /\ ctor_res = "none"
    /\ ParseIdle

\* MagicCANBus.__init__, lines 16-21: if_names is not checked
CtorCall ==
    /\ ctor_res = "none"
    /\ interfaces' = MapInterface(names_arg)
    /\ ctor_res' = "ok"
    /\ UNCHANGED <<busvars, clsvars, msgvars, parsevars, names_arg>>

CtorNext == CtorCall

CtorSpec == CtorInit /\ [][CtorNext]_vars

\* ------------------------------------------------------------------ CANOpenParser

\* The contents a segment may carry.
SegmentBytes == {<<1>>, <<2>>}

\* What a frame of full length can say to the SDO decoder.
SdoCmds ==
    {[len |-> MaxPayload, kind |-> "initiate", dir |-> d, toggle |-> 0,
      final |-> FALSE, bytes |-> <<>>] : d \in {"download", "upload"}}
    \cup
    {[len |-> MaxPayload, kind |-> "segment", dir |-> "none", toggle |-> t,
      final |-> f, bytes |-> b] :
        t \in {0, 1}, f \in BOOLEAN, b \in SegmentBytes}
    \cup
    {[len |-> MaxPayload, kind |-> k, dir |-> "none", toggle |-> 0,
      final |-> FALSE, bytes |-> <<>>] : k \in {"abort", "expedited"}}

\* Payloads shorter than a full frame.
ShortData == {[NoData EXCEPT !.len = n] : n \in 0..(MaxPayload - 1)}

\* Every data a frame may carry.
Payloads == ShortData \cup SdoCmds

\* The object-dictionary configurations a CANOpenParser may be built with.
EdsChoices == {<<>>, << <<>> >>, << <<"eds0">> >>}

\* self.eds_configs[0][0] raises IndexError when either list is empty
EdsFirstRaises(eds) == Len(eds) = 0 \/ Len(eds[1]) = 0

\* The node a frame handed to the SDO decoder is about.
SdoNode(cob) == cob % 128

\* The session table without the session of node n.
Without(tbl, n) == [k \in DOMAIN tbl \ {n} |-> tbl[k]]

\* The session table with the session of node n set.
With(tbl, n, v) == [k \in DOMAIN tbl \cup {n} |-> IF k = n THEN v ELSE tbl[k]]

\* A session right after its initiate command.
NewSession(d) == [dir |-> d.dir, buf |-> <<>>, toggle |-> 0]

\* SDOParser.parse(cob_id, eds, data): the session table afterwards
SdoTable(tbl, cob, d) ==
    LET n == SdoNode(cob) IN
    CASE d.kind = "initiate" -> With(tbl, n, NewSession(d))
      [] d.kind = "abort" -> Without(tbl, n)
      [] d.kind = "segment" /\ n \in DOMAIN tbl ->
            IF d.toggle # tbl[n].toggle \/ d.final
              THEN Without(tbl, n)
              ELSE With(tbl, n, [tbl[n] EXCEPT !.buf = @ \o d.bytes,
                                               !.toggle = 1 - @])
      [] OTHER -> tbl

\* SDOParser.parse(cob_id, eds, data): the description returned
SdoResponse(tbl, cob, d) ==
    LET n == SdoNode(cob) IN
    CASE d.kind = "short" ->
            [by |-> "SDO", what |-> "raw", value |-> <<>>]
      [] d.kind = "expedited" ->
            [by |-> "SDO", what |-> "expedited", value |-> <<>>]
      [] d.kind = "initiate" ->
            [by |-> "SDO", what |-> "initiate", value |-> <<>>]
      [] d.kind = "abort" ->
            [by |-> "SDO", what |-> "abort", value |-> <<>>]
      [] d.kind = "segment" /\ n \notin DOMAIN tbl ->
            [by |-> "SDO", what |-> "ProtocolError", value |-> <<>>]
      [] d.kind = "segment" /\ n \in DOMAIN tbl ->
            IF d.toggle # tbl[n].toggle
              THEN [by |-> "SDO", what |-> "ProtocolError", value |-> <<>>]
              ELSE IF d.final
                THEN [by |-> "SDO", what |-> "complete",
                      value |-> tbl[n].buf \o d.bytes]
                ELSE [by |-> "SDO", what |-> "segment", value |-> d.bytes]

\* The stateless decoders: SYNCParser, EMCYParser, PDOParser, HBParser
Described(decoder) == [by |-> decoder, what |-> "decoded", value |-> <<>>]

\* An exception leaving parse().
Raised(exc) == [by |-> "none", what |-> exc, value |-> <<>>]

\* response = 'BAD PARSE'
BadParse == [by |-> "none", what |-> "BAD PARSE", value |-> <<>>]

\* A chain whose PDO identifiers fall into the SDO branch.
Branch_PdoAsSdo(cob) ==
    IF cob <= 128 THEN "SYNC"
    ELSE IF cob >= 128 /\ cob < 384 THEN "EMCY"
    ELSE IF cob >= 384 /\ cob < 1792 THEN "SDO"
    ELSE IF cob >= 1792 /\ cob < 2020 THEN "HB"
    ELSE "none"

\* A chain whose SDO identifiers fall into the PDO branch.
Branch_SdoAsPdo(cob) ==
    IF cob <= 128 THEN "SYNC"
    ELSE IF cob >= 128 /\ cob < 384 THEN "EMCY"
    ELSE IF cob >= 384 /\ cob < 1792 THEN "PDO"
    ELSE IF cob >= 1792 /\ cob < 2020 THEN "HB"
    ELSE "none"

\* The if / elif chain of CANOpenParser.parse, lines 16-25
Branch(cob) ==
    IF cob <= 128 THEN "SYNC"
    ELSE IF cob >= 128 /\ cob < 384 THEN "EMCY"
    ELSE IF cob >= 384 /\ cob < 1408 THEN "PDO"
    ELSE IF cob >= 1408 /\ cob < 1792 THEN "SDO"
    ELSE IF cob >= 1792 /\ cob < 2020 THEN "HB"
    ELSE "none"

\* CANOpenParser.parse(cob_id, data): the branch taken, the session table
\* afterwards, and the description returned or the exception raised
parse(tbl, eds, cob, d) ==
    LET b == Branch(cob) IN
    CASE b \in {"SYNC", "EMCY", "HB"} ->
            [branch |-> b, sdo |-> tbl, response |-> Described(b)]
      [] b = "PDO" ->
            [branch |-> b, sdo |-> tbl,
             response |-> IF EdsFirstRaises(eds) THEN Raised("IndexError")
                          ELSE Described(b)]
      [] b = "SDO" ->
            IF EdsFirstRaises(eds)
              THEN [branch |-> b, sdo |-> tbl,
                    response |-> Raised("IndexError")]
              ELSE [branch |-> b, sdo |-> SdoTable(tbl, cob, d),
                    response |-> SdoResponse(tbl, cob, d)]
      [] OTHER -> [branch |-> b, sdo |-> tbl, response |-> BadParse]

\* One frame, from any interface, about to be parsed by a new CANOpenParser.
ParseInit ==
    /\ BusInit
    /\ ClsIdle
    /\ MsgIdle
    /\ CtorIdle
    /\ eds_configs \in EdsChoices
    /\ sdo = NoSessions
    /\ sdo_from = NoSessions
    /\ sdo_seen = NoSessions
    /\ p_iface \in Ifaces
    /\ p_cob \in CobIds
    /\ p_data \in Payloads
    /\ branch = "none"
    /\ response = NoResponse
    /\ p_again = FALSE
    /\ p_before = NoResponse

\* The payloads of the latest frames for node n, as long as they follow the
\* sequence initiate download, segment with toggle 0, final segment with
\* toggle 1, one more segment; nothing once they leave it.
Follow(seen, n, d) ==
    LET cur == IF n \in DOMAIN seen THEN seen[n] ELSE <<>>
        seg == d.kind = "segment"
        nxt == CASE d.kind = "initiate" /\ d.dir = "download" -> <<d.bytes>>
                 [] Len(cur) = 1 /\ seg /\ d.toggle = 0 /\ ~d.final ->
                        Append(cur, d.bytes)
                 [] Len(cur) = 2 /\ seg /\ d.toggle = 1 /\ d.final ->
                        Append(cur, d.bytes)
                 [] Len(cur) = 3 /\ seg -> Append(cur, d.bytes)
                 [] OTHER -> <<>>
    IN  IF nxt = <<>> THEN Without(seen, n) ELSE With(seen, n, nxt)

\* The consumer hands the frame it took from interface i to parse().
DoParse(i, cob, d) ==
    /\ sdo_seen' = IF cob_id_to_type(cob) \in {"SDO_TX", "SDO_RX"}
                     THEN Follow(sdo_seen, SdoNode(cob), d)
                     ELSE sdo_seen
    /\ p_iface' = i
    /\ p_cob' = cob
    /\ p_data' = d
    /\ LET r == parse(sdo, eds_configs, cob, d) IN
        /\ branch' = r.branch
        /\ response' = r.response
        /\ sdo' = r.sdo
        /\ sdo_from' = [n \in DOMAIN r.sdo |->
                          IF n \in DOMAIN sdo /\ d.kind # "initiate"
                            THEN sdo_from[n] ELSE i]
    /\ UNCHANGED <<busvars, clsvars, msgvars, ctorvars, eds_configs>>

\* response = parser.parse(cob_id, data)
ParseCall ==
    /\ response = NoResponse
    /\ DoParse(p_iface, p_cob, p_data)
    /\ UNCHANGED <<p_again, p_before>>

ParseNext == ParseCall

ParseSpec == ParseInit /\ [][ParseNext]_vars

\* ------------------------------------------------------------------ SDO frames in a row

\* Identifiers of SDO frames: SDO_TX of node 1, SDO_RX of node 2.
SdoCobs == {1409, 1538}

\* A parser with an object dictionary, before its first frame.
SdoInit ==
    /\ BusInit
    /\ ClsIdle
    /\ MsgIdle
    /\ CtorIdle
    /\ eds_configs = << <<"eds0">> >>
    /\ sdo = NoSessions
    /\ sdo_from = NoSessions
    /\ sdo_seen = NoSessions
    /\ p_iface = "none"
    /\ p_cob = 0
    /\ p_data = NoData
    /\ branch = "none"
    /\ response = NoResponse
    /\ p_again = FALSE
    /\ p_before = NoResponse

\* The segment would make the transfer longer than it is followed for.
TooLong(cob, d) ==
    /\ d.kind = "segment"
    /\ SdoNode(cob) \in DOMAIN sdo
    /\ Len(sdo[SdoNode(cob)].buf) >= MaxSegments

\* One more SDO frame arrives, on any interface, and is parsed.
SdoFeed ==
    \E i \in Ifaces, cob \in SdoCobs, d \in SdoCmds :
        /\ ~TooLong(cob, d)
        /\ DoParse(i, cob, d)
        /\ UNCHANGED <<p_again, p_before>>

SdoNext == SdoFeed

SdoSpec == SdoInit /\ [][SdoNext]_vars

\* ------------------------------------------------------------------ frames of every family

\* One identifier per branch of parse, and 0x681 beside 0x581 for the SDO
\* decoder: NMT, EMCY of node 1, PDO1_TX of node 1, SDO_TX of node 1, 0x681,
\* heartbeat of node 1, 0x7FF.
DecodeCobs == {0, 129, 385, 1409, 1665, 1793, 2047}

\* The payloads tried with an identifier: every one for the SDO decoder, an
\* empty one and a first segment for the others.
DecodePayloads(cob) ==
    IF cob >= 1408 /\ cob < 1792 THEN SdoCmds \cup {NoData}
    ELSE {d \in SdoCmds : d.kind = "segment" /\ d.toggle = 0 /\ ~d.final
                             /\ d.bytes = <<1>>}
         \cup {NoData}

\* A parser with any object dictionary, before its first frame.
DecodeInit ==
    /\ BusInit
    /\ ClsIdle
    /\ MsgIdle
    /\ CtorIdle
    /\ eds_configs \in EdsChoices
    /\ sdo = NoSessions
    /\ sdo_from = NoSessions
    /\ sdo_seen = NoSessions
    /\ p_iface = "none"
    /\ p_cob = 0
    /\ p_data = NoData
    /\ branch = "none"
    /\ response = NoResponse
    /\ p_again = FALSE
    /\ p_before = NoResponse

\* One more frame arrives and is parsed; it may be the frame parsed just
\* before.  The interface is not an argument of parse: one is enough.
DecodeFeed ==
    \E i \in {if_names[1]}, cob \in DecodeCobs :
        \E d \in DecodePayloads(cob) :
            /\ ~TooLong(cob, d)
            /\ DoParse(i, cob, d)
            /\ p_again' = (response # NoResponse /\ i = p_iface
                             /\ cob = p_cob /\ d = p_data)
            /\ p_before' = response

DecodeNext == DecodeFeed

DecodeSpec == DecodeInit /\ [][DecodeNext]_vars

\* ------------------------------------------------------------------ properties

\* Frames handed over or waiting to be, in the order __next__ returns them.
Delivered == polled \o message_queue

\* Occurrences of frame f in sequence q.
Count(q, f) == Cardinality({k \in 1..Len(q) : q[k] = f})

\* The thread of interface i holds a received frame it has not put yet.
InFlight(i) == wpc[i] = "put"

\* C1: frames of one interface are returned by __next__ in the order the
\* interface's thread obtained them from recv(): of two frames of the same
\* source, the one delivered earlier was received earlier.
C1_FifoPerSource ==
    \A a, b \in 1..Len(Delivered) :
        (a < b /\ Delivered[a][1] = Delivered[b][1])
            => Delivered[a][2] < Delivered[b][2]

\* C1 witness: both frames of one interface were returned, in receipt
\* order, the second received after a restart, while the thread of the other
\* interface was still running.
C1_Witness ==
    \E i, j \in Ifaces :
        /\ i # j
        /\ polled = <<Frame(i, 1), Frame(i, 2)>>
        /\ restart_calls[i] >= 1
        /\ is_alive(j)

\* C2: no received frame is dropped or duplicated: every frame recv() has
\* returned is, exactly once, either still held by its thread (between recv
\* and put), in the queue, or returned by __next__; and the queue and the
\* returned frames hold nothing else.  Once the threads have ended, polled
\* plus queued is exactly what was received.
C2_NoDropNoDup ==
    /\ \A i \in Ifaces : \A n \in 1..recvd[i] :
          Count(polled, Frame(i, n)) + Count(message_queue, Frame(i, n))
            + (IF InFlight(i) /\ frame[i] = Frame(i, n) THEN 1 ELSE 0) = 1
    /\ Len(polled) + Len(message_queue)
         + Cardinality({i \in Ifaces : InFlight(i)}) = Frames
    /\ (\A i \in Ifaces : Terminated(i))
          => Len(polled) + Len(message_queue) = Frames

\* C2 witness: after a restart and a shutdown, all frames of the run were
\* received, some are polled and some still queued.
C2_Witness ==
    /\ exits >= 1
    /\ Frames = MaxFrames
    /\ Len(polled) >= 1
    /\ Len(message_queue) >= 1
    /\ \E i \in Ifaces : restart_calls[i] >= 1 /\ recvd[i] >= 2

\* restart() calls of interface i, counting the one its except clause is
\* about to make.
RestartsDue(i) == restart_calls[i] + (IF wpc[i] = "except" THEN 1 ELSE 0)

\* Interface i has had recv() errors and no other fault.
OnlyRecvErrors(i) ==
    recv_errors[i] > 0 /\ downs[i] = 0 /\ restart_errors[i] = 0

C4_AliveWhileKeepAlive ==
    (threads # NoThreads /\ keep_alive) => \A i \in Ifaces : is_alive(i)

\* C5: once __exit__ has returned, keep_alive is cleared and every thread
\* started by __enter__ has ended.
C5_NoThreadAfterExit ==
    exits >= 1 => (~keep_alive /\ \A i \in Ifaces : Terminated(i))

\* C5 witness: __exit__ has returned after a thread that was reading frames
\* ended through stop() and another died of a failed start().
C5_Witness ==
    /\ exits >= 1
    /\ \E i \in Ifaces : wpc[i] = "done" /\ recvd[i] >= 1
    /\ \E i \in Ifaces : wpc[i] = "crashed"

\* C6: once keep_alive is cleared, every thread ends and __exit__ returns.
C6_ShutdownTerminates ==
    (~keep_alive) ~> (exits >= 1 /\ \A i \in Ifaces : Terminated(i))

\* C6 witness: keep_alive is cleared while one thread is inside recv() and
\* another is about to restart after an error.
C6_Witness ==
    /\ ~keep_alive
    /\ cpc = "exit_join"
    /\ \E i \in Ifaces : wpc[i] = "recv"
    /\ \E i \in Ifaces : wpc[i] = "except"

\* C7: a second __exit__ changes nothing of the multiplexer (keep_alive,
\* threads, queue, frames returned, adapter calls) and never waits in join.
C7_SecondExitNoOp ==
    /\ []((exits >= 1 /\ cpc = "exit_join")
            => \A i \in Ifaces : Terminated(i))
    /\ [][(exits >= 1 /\ (cpc = "exit_join" \/ cpc' = "exit_join"))
            => UNCHANGED <<keep_alive, message_queue, threads, wpc, frame,
                           start_calls, restart_calls, stop_calls,
                           polled>>]_vars

\* C7 witness: __exit__ has returned twice, with frames left in the queue.
C7_Witness == exits >= 2 /\ Len(message_queue) >= 1

\* C8: __next__ never waits: its blocking get is only reached with a frame
\* in the queue, whatever the reader threads do meanwhile.
C8_NextNeverBlocks == cpc = "next_get" => ~QueueEmpty(message_queue)

\* C8 witness: __next__ is between its test and its get while a thread is
\* about to put and the other restarts.
C8_Witness ==
    /\ cpc = "next_get"
    /\ \E i \in Ifaces : wpc[i] = "put"
    /\ \E i \in Ifaces : wpc[i] = "except"

\* Interface a is failing or down.
Failing(a) == wpc[a] \in {"restart", "except", "crashed"}

\* C9: a frame received on interface b while another interface is failing
\* is enqueued (and so available to __next__): the frame b's thread holds,
\* the latest it received, comes to be in the queue or returned.
C9_HealthyStillDelivers ==
    \A b \in Ifaces :
        (/\ InFlight(b)
         /\ frame[b] = Frame(b, recvd[b])
         /\ \E a \in Ifaces \ {b} : Failing(a))
        ~> (~InFlight(b) /\ Count(Delivered, Frame(b, recvd[b])) = 1)

\* C9 witness: a frame of one interface is in the queue while the thread of
\* the other has died of a failed restart.
C9_Witness ==
    \E a, b \in Ifaces :
        /\ a # b
        /\ wpc[a] = "crashed"
        /\ restart_errors[a] >= 1
        /\ Count(message_queue, Frame(b, 1)) = 1
        /\ keep_alive

\* Table 1 of the specification, in MessageType's member names (EMCY is
\* EMER, UNKNOWN is UKNOWN).
Table1(c) ==
    IF c = 0 THEN "NMT"
    ELSE IF c >= 1 /\ c <= 127 THEN "SYNC"
    ELSE IF c >= 128 /\ c <= 255 THEN "EMER"
    ELSE IF c = 256 THEN "TIME"
    ELSE IF c >= 384 /\ c <= 511 THEN "PDO1_TX"
    ELSE IF c >= 512 /\ c <= 639 THEN "PDO1_RX"
    ELSE IF c >= 640 /\ c <= 767 THEN "PDO2_TX"
    ELSE IF c >= 768 /\ c <= 895 THEN "PDO2_RX"
    ELSE IF c >= 896 /\ c <= 1023 THEN "PDO3_TX"
    ELSE IF c >= 1024 /\ c <= 1151 THEN "PDO3_RX"
    ELSE IF c >= 1152 /\ c <= 1279 THEN "PDO4_TX"
    ELSE IF c >= 1280 /\ c <= 1407 THEN "PDO4_RX"
    ELSE IF c >= 1408 /\ c <= 1535 THEN "SDO_TX"
    ELSE IF c >= 1536 /\ c <= 1663 THEN "SDO_RX"
    ELSE IF c >= 1792 /\ c <= 2047 THEN "HEARTBEAT"
    ELSE "UKNOWN"

\* C10: for every identifier in 0x000..0x7FF, cob_id_to_type returns the
\* function code Table 1 assigns, UNKNOWN for identifiers in no range.
C10_ClassifiesPerTable1 == mtype # "none" => mtype = Table1(cob_id)

\* C11 as stated: identifier 0x17F classifies as SYNC and identifier 0x180
\* as PDO1_TX.
C11_Boundary17F_SYNC ==
    mtype # "none" =>
        /\ (cob_id = 383 => mtype = "SYNC")
        /\ (cob_id = 384 => mtype = "PDO1_TX")

\* C11 amended: identifier 0x17F lies in no range and classifies as UNKNOWN
\* (as in Table 1); identifier 0x180 classifies as PDO1_TX.
C11_Boundary17F_Unknown ==
    mtype # "none" =>
        /\ (cob_id = 383 => mtype = "UKNOWN")
        /\ (cob_id = 384 => mtype = "PDO1_TX")

\* C11 witness: 0x17F has been classified, and 0x180 would be PDO1_TX.
C11_Witness ==
    /\ cob_id = 383
    /\ mtype = "UKNOWN"
    /\ cob_id_to_type(cob_id + 1) = "PDO1_TX"

\* Base of the range the code classifies c into.
RangeBase(c) == node_ranges[ScanRanges(c, 1) + 1][1]

\* C12: for every identifier in 0x000..0x7FF cob_id_to_node_id returns a
\* value: none for identifiers classified NMT, SYNC, TIME or in no range, the
\* identifier minus the base of its range otherwise.
C12_NodeIdPerRange ==
    node_id # "none" =>
        /\ node_id # "AttributeError"
        /\ IF cob_id_to_type(cob_id) \in {"NMT", "SYNC", "TIME", "UKNOWN"}
             THEN node_id = "None"
             ELSE node_id = cob_id - RangeBase(cob_id)

\* The status the thresholds give message m at time t.
StatusAt(m, t) ==
    IF t - m.timestamp >= m.dead_timeout THEN "DEAD"
    ELSE IF t - m.timestamp >= m.stale_timeout THEN "STALE"
    ELSE "ALIVE"

\* C13: for a message with dead_timeout >= stale_timeout, status() called at
\* time now (both clock reads of the call at that instant) is DEAD when
\* now - timestamp >= dead_timeout, otherwise STALE when now - timestamp >=
\* stale_timeout, otherwise ALIVE; with the defaults 6 and 12 it is ALIVE at
\* t+0, STALE at t+6 and DEAD at t+12.
C13_StatusByThresholds ==
    (last_status.at # -1 /\ msg.dead_timeout >= msg.stale_timeout) =>
        /\ last_status.result = StatusAt(msg, last_status.at)
        /\ (msg.stale_timeout = 6 /\ msg.dead_timeout = 12) =>
              /\ (last_status.at = msg.timestamp => last_status.result = "ALIVE")
              /\ (last_status.at = msg.timestamp + 6
                    => last_status.result = "STALE")
              /\ (last_status.at = msg.timestamp + 12
                    => last_status.result = "DEAD")

\* C13 witness: a message with the default timeouts was found STALE exactly
\* six seconds after its creation.
C13_Witness ==
    /\ msg.stale_timeout = DefaultStale
    /\ msg.dead_timeout = DefaultDead
    /\ last_status = [result |-> "STALE", at |-> msg.timestamp + 6]

\* Severity of a status() result.
Severity(r) == IF r = "DEAD" THEN 2 ELSE IF r = "STALE" THEN 1 ELSE 0

\* C14: while the message is the same, a status() result is never less
\* severe than the one before it: after STALE never ALIVE, after DEAD never
\* STALE or ALIVE.
C14_StatusMonotonic ==
    [][(last_status.result # "none" /\ msg' = msg)
          => Severity(last_status'.result) >= Severity(last_status.result)]_vars

\* C14 witness: status() returned DEAD at a time past both thresholds of a
\* message whose STALE window is not empty.
C14_Witness ==
    /\ last_status.result = "DEAD"
    /\ msg.dead_timeout > msg.stale_timeout
    /\ now > msg.timestamp + msg.dead_timeout
    /\ last_flag = "stale"

\* C15: status(), is_stale() and is_dead() leave the message as it was
\* created, and a status() call at the instant of the one before it returns
\* the same status.
C15_StatusLeavesMessage ==
    [][/\ (msg # NoMsg => msg' = msg)
       /\ (last_status.at # -1 /\ last_status'.at = last_status.at)
             => last_status'.result = last_status.result]_vars

\* C15 witness: status() has returned STALE and is_dead() has been called
\* on a message whose timestamp is the time of its creation.
C15_Witness ==
    /\ last_status.result = "STALE"
    /\ last_status.at = now
    /\ last_flag = "not dead"
    /\ msg.timestamp \in StartTimes

\* C16: every message that exists has dead_timeout >= stale_timeout.
C16_DeadNotBelowStale ==
    msg # NoMsg => msg.dead_timeout >= msg.stale_timeout

\* The list holds some name twice.
HasDuplicates(names) ==
    \E a, b \in 1..Len(names) : a # b /\ names[a] = names[b]

\* C17: constructing the multiplexer with an empty list of names, or with a
\* list holding a name twice, fails with a ConfigError and creates no
\* interface handle; otherwise one handle is created per name.
C17_CtorRejectsBadNames ==
    ctor_res # "none" =>
        IF names_arg = <<>> \/ HasDuplicates(names_arg)
          THEN ctor_res = "ConfigError" /\ interfaces = <<>>
          ELSE ctor_res = "ok" /\ interfaces = names_arg

\* The decoder of each function code's family; TIME has none.
FamilyDecoder(t) ==
    CASE t \in {"NMT", "SYNC"} -> "SYNC"
      [] t = "EMER" -> "EMCY"
      [] t \in {"SDO_TX", "SDO_RX"} -> "SDO"
      [] t = "HEARTBEAT" -> "HB"
      [] t \in {"UKNOWN", "TIME"} -> "none"
      [] OTHER -> "PDO"

\* C18: for every identifier in 0x000..0x7FF, the decoder CANOpenParser.parse
\* chooses is the one of the family MessageType.cob_id_to_type gives for the
\* same identifier.
C18_RoutesByClassification ==
    (response # NoResponse /\ cob_id_to_type(p_cob) # "TIME") =>
        branch = FamilyDecoder(cob_id_to_type(p_cob))

\* C19: parse never raises, whatever the identifier, the payload and the
\* object-dictionary configuration, and a frame whose identifier classifies
\* as UNKNOWN gets the unparseable description and reaches no decoder.
C19_ParseNeverRaises ==
    response # NoResponse =>
        /\ response.what # "IndexError"
        /\ cob_id_to_type(p_cob) = "UKNOWN" =>
              (branch = "none" /\ response = BadParse)

\* C20: SDO sessions are kept per (interface, node): a segment or an abort
\* seen on one interface never changes or destroys the session a frame of
\* another interface opened for the same node id.
C20_SessionsPerInterface ==
    [][\A n \in DOMAIN sdo :
          (sdo_from[n] # p_iface' /\ p_data'.kind \in {"segment", "abort"}) =>
              /\ n \in DOMAIN sdo'
              /\ sdo'[n] = sdo[n]
              /\ sdo_from'[n] = sdo_from[n]]_vars

C23_AdapterLifecycle ==
    \A i \in Ifaces :
        /\ start_calls[i] <= 1
        /\ wpc[i] \in {"unstarted", "start"} =>
              /\ start_calls[i] = 0
              /\ recvd[i] + recv_errors[i] + restart_calls[i] + stop_calls[i] = 0
        /\ wpc[i] \notin {"unstarted", "start"} => start_calls[i] = 1
        /\ stop_calls[i] <= 1
        /\ stop_calls[i] = 1 => (~keep_alive /\ wpc[i] = "done")
        /\ Terminated(i) => stop_calls[i] = 1

\* The number of frames of interface i in q.
FramesOf(q, i) == Cardinality({k \in 1..Len(q) : q[k][1] = i})

\* A frame of interface i is enqueued in this step.
Enqueues(i) ==
    FramesOf(polled' \o message_queue', i) > FramesOf(Delivered, i)

\* C24: after keep_alive is cleared no thread starts a new recv(): a thread
\* enqueues at most one further frame, the one of the recv() it was in (or
\* had just returned from) when the flag was cleared, and is then past
\* receiving for good; once __exit__ has returned the queue changes only by
\* the consumer taking its head.
C24_NoRecvAfterClear ==
    [][~keep_alive =>
        /\ \A i \in Ifaces :
              /\ wpc'[i] = "recv" => wpc[i] = "recv"
              /\ wpc'[i] = "put" => wpc[i] \in {"recv", "put"}
              /\ Enqueues(i) =>
                    /\ wpc[i] = "put"
                    /\ wpc'[i] \notin {"recv", "put"}
                    /\ FramesOf(polled' \o message_queue', i)
                          = FramesOf(Delivered, i) + 1
        /\ (exits >= 1 /\ message_queue' # message_queue) =>
              /\ message_queue' = QueueGetRest(message_queue)
              /\ polled' = Append(polled, QueueGetItem(message_queue))]_vars

\* C24 witness: keep_alive is cleared while a thread holds a frame it has
\* not enqueued yet, and another thread has already ended.
C24_Witness ==
    /\ ~keep_alive
    /\ \E i \in Ifaces : wpc[i] = "put" /\ frame[i] # NoFrame
    /\ \E i \in Ifaces : wpc[i] = "done"

====
